---- MODULE Spec2Model ----
(***************************************************************************)
(* The authenticated request layer of the kiwi nursing client (src/api.ts): *)
(* the session store kept in localStorage, the credential attacher          *)
(* (withHeaders), the single-flight refresh (refreshOnce /                  *)
(* refreshAccessToken), the request executor (apiFetch), the JSON decoder   *)
(* (apiFetchJson) and the logout (logoutApi and the Logout handler).        *)
(*                                                                         *)
(* Every await of the code is a suspension point: a logical call or the     *)
(* refresh task stops there and another one may run.  The code between two  *)
(* awaits runs to completion, so it is one action.  The server is the       *)
(* environment: it answers every network call with any status, any body,    *)
(* or a transport failure.                                                  *)
(***************************************************************************)
EXTENDS Integers, Sequences, FiniteSets, TLC

\* ------------------------------------------------------------------ bounds

\* The number of logical apiFetch calls of a run.  Each starts at any time,
\* so the calls overlap or follow each other.
NumCalls == 2

Calls == 1..NumCalls

\* A logical call invokes refreshOnce at most once (api.ts:169), so there
\* are never more refresh tasks than calls.
Tasks == 1..NumCalls

\* ------------------------------------------------------- JavaScript values

Undefined == [t |-> "undefined"]

Null == [t |-> "null"]

\* A string is the sequence of its characters.
Str(s) == [t |-> "string", s |-> s]

Bool(b) == [t |-> "boolean", b |-> b]

Num(n) == [t |-> "number", n |-> n]

\* A parsed JSON object, by the two fields the error reader looks at.
Obj(m, e) == [t |-> "object", message |-> m, error |-> e]

\* !v is false: a non-empty string, true, a number but 0, any object.
Truthy(v) ==
    CASE v.t = "string" -> Len(v.s) > 0
      [] v.t = "boolean" -> v.b
      [] v.t = "number" -> v.n # 0
      [] v.t = "object" -> TRUE
      [] OTHER -> FALSE

\* a ?? b
Coalesce(a, b) == IF a.t \in {"undefined", "null"} THEN b ELSE a

\* ---------------------------------------------------------- HTTP responses

StatusOk == 200

StatusUnauthorized == 401

StatusServerError == 500

Statuses == {StatusOk, StatusUnauthorized, StatusServerError}

\* Response.ok
ResOk(status) == status >= 200 /\ status <= 299

\* ----------------------------------------------------------- session store

ACCESS_TOKEN_KEY == "accessToken"

REFRESH_TOKEN_KEY == "refreshToken"

USER_KEY == "nurseUser"

StoreKeys == {ACCESS_TOKEN_KEY, REFRESH_TOKEN_KEY, USER_KEY}

\* localStorage.getItem: null for a key that is not stored.
getItem(ls, k) == ls[k]

setItem(ls, k, s) == [ls EXCEPT ![k] = Str(s)]

removeItem(ls, k) == [ls EXCEPT ![k] = Null]

getAccessToken(ls) == getItem(ls, ACCESS_TOKEN_KEY)

getRefreshToken(ls) == getItem(ls, REFRESH_TOKEN_KEY)

setAccessToken(ls, s) == setItem(ls, ACCESS_TOKEN_KEY, s)

setRefreshToken(ls, s) == setItem(ls, REFRESH_TOKEN_KEY, s)

\* A plausible slip: the refresh credential survives the clear.
clearSessionKeepsRefresh(ls) ==
    removeItem(removeItem(ls, ACCESS_TOKEN_KEY), USER_KEY)

\* A plausible slip: the cached user survives the clear.
clearSessionKeepsUser(ls) ==
    removeItem(removeItem(ls, ACCESS_TOKEN_KEY), REFRESH_TOKEN_KEY)

clearSession(ls) ==
    removeItem(removeItem(removeItem(ls, ACCESS_TOKEN_KEY), REFRESH_TOKEN_KEY),
               USER_KEY)

EmptyStore == [k \in StoreKeys |-> Null]

\* ------------------------------------------------------------- credentials

\* token.split("."): the segments between the dots; "" splits into [""].
RECURSIVE SplitDot(_)
SplitDot(s) ==
    IF s = <<>> THEN << <<>> >>
    ELSE LET rest == SplitDot(Tail(s))
         IN  IF Head(s) = "."
             THEN << <<>> >> \o rest
             ELSE << <<Head(s)>> \o Head(rest) >> \o Tail(rest)

\* A plausible slip: the segments are counted but not required non-empty.
isProbablyJwtCountOnly(token) ==
    IF ~Truthy(token) THEN FALSE ELSE Len(SplitDot(token.s)) = 3

isProbablyJwt(token) ==
    IF ~Truthy(token) THEN FALSE
    ELSE LET parts == SplitDot(token.s)
         IN  Len(parts) = 3 /\ \A i \in 1..Len(parts) : Len(parts[i]) > 0

\* `Bearer ${token}`
Bearer(s) == <<"Bearer ">> \o s

\* A plausible slip: a malformed credential ends the whole session.
withHeadersPurgeClears(ls) ==
    LET token == getAccessToken(ls)
    IN  IF Truthy(token) /\ ~isProbablyJwt(token)
        THEN [ls |-> clearSession(ls), Authorization |-> Undefined]
        ELSE IF isProbablyJwt(token)
        THEN [ls |-> ls, Authorization |-> Str(Bearer(token.s))]
        ELSE [ls |-> ls, Authorization |-> Undefined]

\* A plausible slip: the token is attached whenever one is stored.
withHeadersNoCheck(ls) ==
    LET token == getAccessToken(ls)
    IN  IF Truthy(token)
        THEN [ls |-> ls, Authorization |-> Str(Bearer(token.s))]
        ELSE [ls |-> ls, Authorization |-> Undefined]

\* withHeaders: the Authorization header of the request it builds and the
\* store it leaves.  (The Content-Type default reads only the caller's
\* descriptor and touches no state.)
withHeaders(ls) ==
    LET token == getAccessToken(ls)
    IN  IF Truthy(token) /\ ~isProbablyJwt(token)
        THEN [ls |-> removeItem(ls, ACCESS_TOKEN_KEY), Authorization |-> Undefined]
        ELSE IF isProbablyJwt(token)
        THEN [ls |-> ls, Authorization |-> Str(Bearer(token.s))]
        ELSE [ls |-> ls, Authorization |-> Undefined]

\* ------------------------------------------------------- the token values

\* Access credentials the server hands out: two well-formed ones, one with
\* an empty middle segment, one with two segments only.
TokX == <<"a", ".", "b", ".", "c">>

TokX2 == <<"d", ".", "e", ".", "f">>

TokEmptySeg == <<"a", ".", ".", "c">>

TokTwoSeg == <<"a", ".", "b">>

\* Refresh credentials are opaque.
RefY == <<"r", "1">>

RefY2 == <<"r", "2">>

UserJson == <<"{", "}">>

\* A parsed refresh response body: { accessToken?, token?, refreshToken? }.
Body(a, t, r) == [accessToken |-> a, token |-> t, refreshToken |-> r]

\* The parsed bodies of a successful refresh response: a new credential with
\* and without a rotated refresh credential, the credential under the other
\* field name (and malformed), an empty accessToken before a token, and no
\* credential at all.
RefreshBodies ==
    { Body(Str(TokX2), Undefined, Undefined),
      Body(Str(TokX2), Str(TokTwoSeg), Str(RefY2)),
      Body(Undefined, Str(TokTwoSeg), Undefined),
      Body(Str(<<>>), Str(TokX2), Undefined),
      Body(Undefined, Undefined, Str(RefY2)) }

\* The stores a completed login leaves (Login.handleSubmit): both credentials
\* and the user, the access credential whatever the server sent.
LoginStores ==
    { [k \in StoreKeys |->
         CASE k = ACCESS_TOKEN_KEY -> Str(a)
           [] k = REFRESH_TOKEN_KEY -> Str(RefY)
           [] k = USER_KEY -> Str(UserJson)] :
      a \in {TokX, TokEmptySeg} }

\* ---------------------------------------------------------------- promises

Pending == [k |-> "pending"]

Fulfilled(v) == [k |-> "fulfilled", v |-> v]

Rejected == [k |-> "rejected"]

\* promise.catch(() => null)
CatchNull(p) == IF p.k = "rejected" THEN Fulfilled(Null) ELSE p

\* ------------------------------------------------------------------- state

VARIABLES
    localStorage,     \* the session store: key -> string or null
    refreshInFlight,  \* the shared handle: NoHandle or the task it points to
    task,             \* the refresh tasks (one per refreshAccessToken call)
    call,             \* the logical apiFetch calls
    concurrent,       \* history: all the calls were in flight at one time
    decoding,         \* an apiFetchJson call, from the response of its apiFetch
    logout,           \* the Logout button's handler
    login,            \* the login form's submit handler
    save              \* the profile page's save handler

vars ==
    <<localStorage, refreshInFlight, task, call, concurrent, decoding, logout,
      login, save>>

\* What the request layer leaves alone: the decoder's and the pages' state.
pageVars == <<decoding, logout, login, save>>

\* What the decoder and the Logout handler leave alone, the store apart.
layerVars == <<refreshInFlight, task, call, concurrent>>

\* let refreshInFlight = null
NoHandle == 0

\* A refresh task: where refreshAccessToken stands, the refresh credential it
\* read (its local refreshToken), the statuses the exchange answered with,
\* the parsed body (its local data), what refreshAccessToken's promise
\* settled to (ret), what the handle's promise settled to (out), whether a
\* network call was made, and the store each clearSession of the task left.
UnusedTask ==
    [pc |-> "unused", refreshToken |-> Undefined, net |-> FALSE, res |-> <<>>,
     data |-> Undefined, ret |-> Pending, out |-> Pending, cleared |-> <<>>]

\* A logical call: where apiFetch stands, the Authorization header of each
\* send, the status of each response, the handle it saw in refreshOnce and
\* the task it awaits, the value refreshOnce gave it, the store each
\* clearSession of apiFetch itself left, and which response it returned.
IdleCall ==
    [pc |-> "idle", sent |-> <<>>, res |-> <<>>, saw |-> NoHandle,
     awaiting |-> NoHandle, newToken |-> Pending, cleared |-> <<>>,
     ret |-> "none"]

\* No apiFetchJson call is being decoded.
IdleDecoding ==
    [pc |-> "idle", res |-> Undefined, options |-> Undefined, out |-> Pending]

\* The Logout button has not been pressed: where its handler stands, the
\* refresh credential logoutApi read, whether it made a network call, the
\* statuses it was answered with, what its promise settled to, and the
\* store redirectToLogin's clearSession left.
IdleLogout ==
    [pc |-> "idle", refreshToken |-> Undefined, net |-> FALSE, res |-> <<>>,
     ret |-> Pending, cleared |-> <<>>]

\* The request layer before any call.
LayerInit ==
    /\ refreshInFlight = NoHandle
    /\ task = [r \in Tasks |-> UnusedTask]
    /\ call = [c \in Calls |-> IdleCall]
    /\ concurrent = FALSE

\* The login form has not been submitted: where handleSubmit stands,
\* whether it called the login endpoint, the status it was answered with,
\* the body it parsed, the error it shows, and whether it navigated to the
\* dashboard.
IdleLogin ==
    [pc |-> "idle", net |-> FALSE, res |-> <<>>, data |-> Undefined,
     error |-> Null, navigated |-> FALSE]

\* Save has not been pressed: where saveProfile stands, the profile that
\* was loaded and the form as it is filled in, the payload saveProfile built, the methods of the requests it issued, what each apiFetchJson
\* settled to, the success and error banners, whether it redirected to the
\* login page, and the store each redirectToLogin left.
IdleSave ==
    [pc |-> "idle", profile |-> Null, form |-> Undefined, payload |-> Undefined,
     sent |-> <<>>, outs |-> <<>>, success |-> Null, error |-> Null,
     redirected |-> FALSE, cleared |-> <<>>]

\* No page handler has run.
PagesIdle ==
    /\ decoding = IdleDecoding
    /\ logout = IdleLogout
    /\ login = IdleLogin
    /\ save = IdleSave

Init ==
    /\ localStorage \in LoginStores
    /\ LayerInit
    /\ PagesIdle

\* -------------------------------------------------------------- scheduling

\* Promise reactions are pending: refreshAccessToken has settled and the
\* .catch/.finally of refreshOnce have not run yet, or the handle's promise
\* has settled and a call awaiting it has not resumed yet.  They run in the
\* microtask checkpoint of the task that settled the refresh, before the
\* event loop takes the next task (a network completion, a new call).
MicrotasksPending ==
    \/ \E r \in Tasks : task[r].pc = "returned"
    \/ \E c \in Calls :
         call[c].pc = "refresh" /\ task[call[c].awaiting].pc = "settled"

\* ------------------------------------------------------- refresh coordinator

\* The next task: tasks are taken in order.
FreshTask(tk) == CHOOSE r \in Tasks :
    tk[r].pc = "unused" /\ \A q \in Tasks : q < r => tk[q].pc # "unused"

\* A plausible slip: the exchange is sent whether or not a refresh credential
\* is stored.
refreshAccessTokenStartAlwaysSends(ls) ==
    [UnusedTask EXCEPT !.pc = "fetch", !.refreshToken = getRefreshToken(ls),
                       !.net = TRUE]

\* refreshAccessToken up to its first await: without a refresh credential it
\* returns null at once, otherwise the exchange is sent.
refreshAccessTokenStart(ls) ==
    LET refreshToken == getRefreshToken(ls)
    IN  IF ~Truthy(refreshToken)
        THEN [UnusedTask EXCEPT !.pc = "returned", !.refreshToken = refreshToken,
                                !.ret = Fulfilled(Null)]
        ELSE [UnusedTask EXCEPT !.pc = "fetch", !.refreshToken = refreshToken,
                                !.net = TRUE]

\* A plausible slip: the 401 of the exchange is treated like any other
\* failure and the session is kept.
refreshAccessTokenOnResponseKeeps(ls, status) ==
    IF ~ResOk(status)
    THEN [ls |-> ls, cleared |-> <<>>, pc |-> "returned", ret |-> Fulfilled(Null)]
    ELSE [ls |-> ls, cleared |-> <<>>, pc |-> "json", ret |-> Pending]

\* refreshAccessToken resumed with the exchange's response, up to the return
\* or to the await of res.json().
refreshAccessTokenOnResponse(ls, status) ==
    IF ~ResOk(status)
    THEN IF status = StatusUnauthorized
         THEN [ls |-> clearSession(ls), cleared |-> <<clearSession(ls)>>,
               pc |-> "returned", ret |-> Fulfilled(Null)]
         ELSE [ls |-> ls, cleared |-> <<>>, pc |-> "returned",
               ret |-> Fulfilled(Null)]
    ELSE [ls |-> ls, cleared |-> <<>>, pc |-> "json", ret |-> Pending]

\* A plausible slip: a rotated refresh credential is not stored.
refreshAccessTokenOnBodyNoRotation(ls, data) ==
    LET newAccess == Coalesce(Coalesce(data.accessToken, data.token), Null)
    IN  IF ~Truthy(newAccess)
        THEN [ls |-> ls, ret |-> Fulfilled(Null)]
        ELSE [ls |-> setAccessToken(ls, newAccess.s), ret |-> Fulfilled(newAccess)]

\* A plausible slip: a response without a credential ends the session, as
\* a 401 does.
refreshAccessTokenOnBodyClearsOnMissing(ls, data) ==
    LET newAccess == Coalesce(Coalesce(data.accessToken, data.token), Null)
    IN  IF ~Truthy(newAccess)
        THEN [ls |-> clearSession(ls), ret |-> Fulfilled(Null)]
        ELSE [ls |-> IF Truthy(data.refreshToken)
                     THEN setRefreshToken(setAccessToken(ls, newAccess.s),
                                          data.refreshToken.s)
                     ELSE setAccessToken(ls, newAccess.s),
              ret |-> Fulfilled(newAccess)]

\* A plausible slip: the new credential is returned to the callers but not
\* stored.
refreshAccessTokenOnBodyNoPersist(ls, data) ==
    LET newAccess == Coalesce(Coalesce(data.accessToken, data.token), Null)
    IN  [ls |-> ls,
         ret |-> IF ~Truthy(newAccess) THEN Fulfilled(Null) ELSE Fulfilled(newAccess)]

\* A plausible slip: the token field is preferred over accessToken.
refreshAccessTokenOnBodyPrefersToken(ls, data) ==
    LET newAccess == Coalesce(Coalesce(data.token, data.accessToken), Null)
    IN  IF ~Truthy(newAccess)
        THEN [ls |-> ls, ret |-> Fulfilled(Null)]
        ELSE [ls |-> IF Truthy(data.refreshToken)
                     THEN setRefreshToken(setAccessToken(ls, newAccess.s),
                                          data.refreshToken.s)
                     ELSE setAccessToken(ls, newAccess.s),
              ret |-> Fulfilled(newAccess)]

\* refreshAccessToken resumed with the parsed body, up to its return.
refreshAccessTokenOnBody(ls, data) ==
    LET newAccess == Coalesce(Coalesce(data.accessToken, data.token), Null)
    IN  IF ~Truthy(newAccess)
        THEN [ls |-> ls, ret |-> Fulfilled(Null)]
        ELSE [ls |-> IF Truthy(data.refreshToken)
                     THEN setRefreshToken(setAccessToken(ls, newAccess.s),
                                          data.refreshToken.s)
                     ELSE setAccessToken(ls, newAccess.s),
              ret |-> Fulfilled(newAccess)]

\* A plausible slip: every caller starts its own refresh.
refreshOnceNoDedup(handle, tk, ls) ==
    LET r == FreshTask(tk)
    IN  [handle |-> r, task |-> [tk EXCEPT ![r] = refreshAccessTokenStart(ls)],
         awaited |-> r]

\* refreshOnce: the handle and the tasks it leaves, and the task whose
\* outcome the caller awaits.
refreshOnce(handle, tk, ls) ==
    IF handle = NoHandle
    THEN LET r == FreshTask(tk)
         IN  [handle |-> r,
              task |-> [tk EXCEPT ![r] = refreshAccessTokenStart(ls)],
              awaited |-> r]
    ELSE [handle |-> handle, task |-> tk, awaited |-> handle]

\* A plausible slip: the .catch is left out and a rejection reaches the
\* callers.
HandleOutcomeNoCatch(p) == p

\* What the handle's promise settles to: refreshAccessToken().catch(() => null)
\* and then .finally, which passes the outcome on.
HandleOutcome(p) == CatchNull(p)

\* The exchange answers with a status.
RefreshResponse(r) ==
    /\ ~MicrotasksPending
    /\ task[r].pc = "fetch"
    /\ \E status \in Statuses :
         LET n == refreshAccessTokenOnResponse(localStorage, status)
         IN  /\ localStorage' = n.ls
             /\ task' = [task EXCEPT ![r].pc = n.pc,
                                     ![r].res = Append(@, status),
                                     ![r].ret = n.ret,
                                     ![r].cleared = @ \o n.cleared]
    /\ UNCHANGED <<refreshInFlight, call, concurrent>>
    /\ UNCHANGED pageVars

\* The exchange fails at transport level: fetch rejects and so does
\* refreshAccessToken.
RefreshTransportError(r) ==
    /\ ~MicrotasksPending
    /\ task[r].pc = "fetch"
    /\ task' = [task EXCEPT ![r].pc = "returned", ![r].ret = Rejected]
    /\ UNCHANGED <<localStorage, refreshInFlight, call, concurrent>>
    /\ UNCHANGED pageVars

\* res.json() gives the parsed body.
RefreshBody(r) ==
    /\ ~MicrotasksPending
    /\ task[r].pc = "json"
    /\ \E data \in RefreshBodies :
         LET n == refreshAccessTokenOnBody(localStorage, data)
         IN  /\ localStorage' = n.ls
             /\ task' = [task EXCEPT ![r].pc = "returned", ![r].data = data,
                                     ![r].ret = n.ret]
    /\ UNCHANGED <<refreshInFlight, call, concurrent>>
    /\ UNCHANGED pageVars

\* res.json() rejects: the success body is not JSON.
RefreshBodyMalformed(r) ==
    /\ ~MicrotasksPending
    /\ task[r].pc = "json"
    /\ task' = [task EXCEPT ![r].pc = "returned", ![r].ret = Rejected]
    /\ UNCHANGED <<localStorage, refreshInFlight, call, concurrent>>
    /\ UNCHANGED pageVars

\* A plausible slip: the .finally is left out and the handle keeps the
\* settled refresh.
RefreshSettledKeepsHandle(r) ==
    /\ task[r].pc = "returned"
    /\ task' = [task EXCEPT ![r].pc = "settled",
                            ![r].out = HandleOutcome(task[r].ret)]
    /\ UNCHANGED <<localStorage, refreshInFlight, call, concurrent>>
    /\ UNCHANGED pageVars

\* refreshAccessToken has settled: the .catch folds a rejection into null,
\* the .finally empties the handle, and the handle's promise settles.
RefreshSettled(r) ==
    /\ task[r].pc = "returned"
    /\ refreshInFlight' = NoHandle
    /\ task' = [task EXCEPT ![r].pc = "settled",
                            ![r].out = HandleOutcome(task[r].ret)]
    /\ UNCHANGED <<localStorage, call, concurrent>>
    /\ UNCHANGED pageVars

\* ---------------------------------------------------------- request executor

\* apiFetch up to its first await: the descriptor is built and sent.
apiFetchStart(c) ==
    /\ ~MicrotasksPending
    /\ call[c].pc = "idle"
    /\ LET h == withHeaders(localStorage)
       IN  /\ localStorage' = h.ls
           /\ call' = [call EXCEPT ![c].pc = "fetch1",
                                   ![c].sent = Append(@, h.Authorization)]
    /\ concurrent' = \A d \in Calls \ {c} : call[d].pc \notin {"idle", "done"}
    /\ UNCHANGED <<refreshInFlight, task>>
    /\ UNCHANGED pageVars

\* A plausible slip: the refresh is tried on every refused response, not
\* only on 401.
apiFetchResponseRefreshesOnError(c) ==
    /\ ~MicrotasksPending
    /\ call[c].pc = "fetch1"
    /\ \E status \in Statuses :
         IF ~ResOk(status)
         THEN LET o == refreshOnce(refreshInFlight, task, localStorage)
              IN  /\ refreshInFlight' = o.handle
                  /\ task' = o.task
                  /\ call' = [call EXCEPT ![c].pc = "refresh",
                                          ![c].res = Append(@, status),
                                          ![c].saw = refreshInFlight,
                                          ![c].awaiting = o.awaited]
         ELSE /\ call' = [call EXCEPT ![c].pc = "done",
                                      ![c].res = Append(@, status),
                                      ![c].ret = "first"]
              /\ UNCHANGED <<refreshInFlight, task>>
    /\ UNCHANGED <<localStorage, concurrent>>
    /\ UNCHANGED pageVars

\* The first send is answered.  Any status but 401 is returned as it is; on
\* 401 refreshOnce runs and the call awaits the handle's promise.
apiFetchResponse(c) ==
    /\ ~MicrotasksPending
    /\ call[c].pc = "fetch1"
    /\ \E status \in Statuses :
         IF status = StatusUnauthorized
         THEN LET o == refreshOnce(refreshInFlight, task, localStorage)
              IN  /\ refreshInFlight' = o.handle
                  /\ task' = o.task
                  /\ call' = [call EXCEPT ![c].pc = "refresh",
                                          ![c].res = Append(@, status),
                                          ![c].saw = refreshInFlight,
                                          ![c].awaiting = o.awaited]
         ELSE /\ call' = [call EXCEPT ![c].pc = "done",
                                      ![c].res = Append(@, status),
                                      ![c].ret = "first"]
              /\ UNCHANGED <<refreshInFlight, task>>
    /\ UNCHANGED <<localStorage, concurrent>>
    /\ UNCHANGED pageVars

\* A send fails at transport level: fetch rejects and apiFetch with it.
apiFetchTransportError(c) ==
    /\ ~MicrotasksPending
    /\ call[c].pc \in {"fetch1", "fetch2"}
    /\ call' = [call EXCEPT ![c].pc = "done", ![c].ret = "threw"]
    /\ UNCHANGED <<localStorage, refreshInFlight, task, concurrent>>
    /\ UNCHANGED pageVars

\* A plausible slip: without a new credential the original response is
\* returned but the session is kept.
apiFetchOnRefreshKeeps(ls, newToken) ==
    IF ~Truthy(newToken)
    THEN [ls |-> ls, cleared |-> <<>>, retry |-> FALSE,
          Authorization |-> Undefined]
    ELSE LET h == withHeaders(ls)
         IN  [ls |-> h.ls, cleared |-> <<>>, retry |-> TRUE,
              Authorization |-> h.Authorization]

\* A plausible slip: the request is sent again whatever the refresh gave.
apiFetchOnRefreshAlwaysRetries(ls, newToken) ==
    LET h == withHeaders(ls)
    IN  [ls |-> h.ls, cleared |-> <<>>, retry |-> TRUE,
         Authorization |-> h.Authorization]

\* apiFetch resumed with the value of refreshOnce, up to the return or to
\* the retry's send.
apiFetchOnRefresh(ls, newToken) ==
    IF ~Truthy(newToken)
    THEN [ls |-> clearSession(ls), cleared |-> <<clearSession(ls)>>,
          retry |-> FALSE, Authorization |-> Undefined]
    ELSE LET h == withHeaders(ls)
         IN  [ls |-> h.ls, cleared |-> <<>>, retry |-> TRUE,
              Authorization |-> h.Authorization]

\* The handle's promise has settled and the call resumes.  A rejection would
\* be thrown out of apiFetch.
apiFetchResumed(c) ==
    /\ call[c].pc = "refresh"
    /\ task[call[c].awaiting].pc = "settled"
    /\ LET p == task[call[c].awaiting].out
       IN  IF p.k = "rejected"
           THEN /\ call' = [call EXCEPT ![c].pc = "done", ![c].newToken = p,
                                        ![c].ret = "threw"]
                /\ UNCHANGED localStorage
           ELSE LET n == apiFetchOnRefresh(localStorage, p.v)
                IN  /\ localStorage' = n.ls
                    /\ call' = [call EXCEPT
                         ![c].pc = IF n.retry THEN "fetch2" ELSE "done",
                         ![c].newToken = p,
                         ![c].cleared = @ \o n.cleared,
                         ![c].sent = IF n.retry THEN Append(@, n.Authorization) ELSE @,
                         ![c].ret = IF n.retry THEN @ ELSE "first"]
    /\ UNCHANGED <<refreshInFlight, task, concurrent>>
    /\ UNCHANGED pageVars

\* A plausible slip: a retry that is refused again is returned without
\* clearing the session.
apiFetchOnRetryKeeps(ls, status) == [ls |-> ls, cleared |-> <<>>]

\* apiFetch resumed with the retry's response: a 401 clears the session.
apiFetchOnRetry(ls, status) ==
    IF status = StatusUnauthorized
    THEN [ls |-> clearSession(ls), cleared |-> <<clearSession(ls)>>]
    ELSE [ls |-> ls, cleared |-> <<>>]

\* The retry is answered and its response returned, whatever it is.
apiFetchRetryResponse(c) ==
    /\ ~MicrotasksPending
    /\ call[c].pc = "fetch2"
    /\ \E status \in Statuses :
         LET n == apiFetchOnRetry(localStorage, status)
         IN  /\ localStorage' = n.ls
             /\ call' = [call EXCEPT ![c].pc = "done",
                                     ![c].res = Append(@, status),
                                     ![c].cleared = @ \o n.cleared,
                                     ![c].ret = "retry"]
    /\ UNCHANGED <<refreshInFlight, task, concurrent>>
    /\ UNCHANGED pageVars

\* -------------------------------------------------------------- JSON decoder

StatusNoContent == 204

StatusNotFound == 404

\* The media type a JSON response is labelled with.
ApplicationJson == "application/json"

\* A response as apiFetchJson reads it: the status, the content-type header
\* (null when the response has none; otherwise the media type followed by
\* its parameters) and the body, given by what res.json() makes of it (a
\* value, or SyntaxError) and by what res.text() reads.
Response(status, ct, body) == [status |-> status, contentType |-> ct, body |-> body]

SyntaxError == [t |-> "SyntaxError"]

Payload(json, text) == [json |-> json, text |-> text]

\* ct.includes("application/json")
IncludesJson(ct) == \E i \in 1..Len(ct.s) : ct.s[i] = ApplicationJson

\* text.trim(): the spaces at both ends are dropped.
RECURSIVE TrimStart(_)
TrimStart(s) ==
    IF s # <<>> /\ Head(s) = " " THEN TrimStart(Tail(s)) ELSE s

RECURSIVE TrimEnd(_)
TrimEnd(s) ==
    IF s # <<>> /\ s[Len(s)] = " " THEN TrimEnd(SubSeq(s, 1, Len(s) - 1)) ELSE s

Trim(s) == TrimEnd(TrimStart(s))

\* `${n}`: the decimal digits of a natural number.
RECURSIVE Digits(_)
Digits(n) ==
    LET d == <<"0", "1", "2", "3", "4", "5", "6", "7", "8", "9">>[(n % 10) + 1]
    IN  IF n < 10 THEN <<d>> ELSE Digits(n \div 10) \o <<d>>

\* `Request failed (${res.status})`
RequestFailed(status) ==
    Str(<<"Request failed (">> \o Digits(status) \o <<")">>)

\* data?.f
Field(data, f) == IF data.t = "object" THEN data[f] ELSE Undefined

\* a || b
Or(a, b) == IF Truthy(a) THEN a ELSE b

\* readErrorMessage: the message or error field of a JSON body, a JSON
\* string, the trimmed text of another body, or the fallback.  A JSON body
\* that does not parse has been consumed by res.json(), so res.text()
\* rejects and the fallback is taken.
readErrorMessage(res) ==
    LET ct == Coalesce(res.contentType, Str(<<>>))
    IN  IF IncludesJson(ct)
        THEN IF res.body.json = SyntaxError
             THEN RequestFailed(res.status)
             ELSE LET data == res.body.json
                  IN  Or(Or(Or(Field(data, "message"), Field(data, "error")),
                            IF data.t = "string" THEN data ELSE Null),
                         RequestFailed(res.status))
        ELSE IF Trim(res.body.text.s) # <<>>
             THEN Str(Trim(res.body.text.s))
             ELSE RequestFailed(res.status)

\* What apiFetchJson settles to: a value, or an Error with its message and
\* its status property (undefined when none was set).
Returns(v) == [k |-> "returned", v |-> v]

Throws(message, status) == [k |-> "threw", message |-> message, status |-> status]

NoContentMessage == Str(<<"No content returned (204).">>)

NonJsonMessage == Str(<<"Expected JSON but got non-JSON. Check API URL/proxy.">>)

\* A plausible slip: the status is not attached to the error.
apiFetchJsonOnResponseNoStatus(res, options) ==
    IF ~ResOk(res.status)
    THEN Throws(readErrorMessage(res), Undefined)
    ELSE IF res.status = StatusNoContent
    THEN IF Truthy(options.allowNoJson) THEN Returns(Null)
         ELSE Throws(NoContentMessage, Undefined)
    ELSE IF ~IncludesJson(Coalesce(res.contentType, Str(<<>>)))
    THEN IF Truthy(options.allowNoJson) THEN Returns(Null)
         ELSE Throws(NonJsonMessage, Undefined)
    ELSE IF res.body.json = SyntaxError
    THEN Throws(Str(<<"SyntaxError">>), Undefined)
    ELSE Returns(res.body.json)

\* A plausible slip: allowNoJson excuses any response, a refused one too.
apiFetchJsonOnResponseFlagFirst(res, options) ==
    IF Truthy(options.allowNoJson)
       /\ (~ResOk(res.status) \/ res.status = StatusNoContent
           \/ ~IncludesJson(Coalesce(res.contentType, Str(<<>>))))
    THEN Returns(Null)
    ELSE IF ~ResOk(res.status)
    THEN Throws(readErrorMessage(res), Num(res.status))
    ELSE IF res.status = StatusNoContent
    THEN Throws(NoContentMessage, Undefined)
    ELSE IF ~IncludesJson(Coalesce(res.contentType, Str(<<>>)))
    THEN Throws(NonJsonMessage, Undefined)
    ELSE IF res.body.json = SyntaxError
    THEN Throws(Str(<<"SyntaxError">>), Undefined)
    ELSE Returns(res.body.json)

\* apiFetchJson resumed with the response of apiFetch, up to its settling.
apiFetchJsonOnResponse(res, options) ==
    IF ~ResOk(res.status)
    THEN Throws(readErrorMessage(res), Num(res.status))
    ELSE IF res.status = StatusNoContent
    THEN IF Truthy(options.allowNoJson) THEN Returns(Null)
         ELSE Throws(NoContentMessage, Undefined)
    ELSE IF ~IncludesJson(Coalesce(res.contentType, Str(<<>>)))
    THEN IF Truthy(options.allowNoJson) THEN Returns(Null)
         ELSE Throws(NonJsonMessage, Undefined)
    ELSE IF res.body.json = SyntaxError
    THEN Throws(Str(<<"SyntaxError">>), Undefined)
    ELSE Returns(res.body.json)

\* The statuses, content types, bodies and options the decoder is given.
DecodeStatuses ==
    {StatusOk, StatusNoContent, StatusUnauthorized, StatusNotFound, StatusServerError}

ContentTypes ==
    { Null, Str(<<ApplicationJson>>), Str(<<ApplicationJson, "; charset=utf-8">>),
      Str(<<"text/html">>) }

Payloads ==
    { Payload(Obj(Str(<<"denied">>), Undefined), Str(<<"{\"message\":\"denied\"}">>)),
      Payload(Obj(Undefined, Str(<<"bad">>)), Str(<<"{\"error\":\"bad\"}">>)),
      Payload(Obj(Undefined, Undefined), Str(<<"{}">>)),
      Payload(Str(<<"oops">>), Str(<<"\"oops\"">>)),
      Payload(SyntaxError, Str(<<" ", "gateway down", " ">>)),
      Payload(SyntaxError, Str(<<" ", " ">>)),
      Payload(SyntaxError, Str(<<>>)) }

Responses ==
    {Response(s, ct, b) : s \in DecodeStatuses, ct \in ContentTypes, b \in Payloads}

\* options = {} leaves allowNoJson undefined.
OptionSets == {[allowNoJson |-> v] : v \in {Undefined, Bool(TRUE), Bool(FALSE)}}

\* apiFetch has returned a response to apiFetchJson: any response, under any
\* options.
DecodeInit ==
    /\ localStorage \in LoginStores
    /\ LayerInit
    /\ logout = IdleLogout
    /\ login = IdleLogin
    /\ save = IdleSave
    /\ decoding \in {[pc |-> "awaiting", res |-> r, options |-> o, out |-> Pending] :
                      r \in Responses, o \in OptionSets}

\* apiFetchJson resumes with the response and settles.
apiFetchJsonResumed ==
    /\ decoding.pc = "awaiting"
    /\ decoding' = [decoding EXCEPT
                      !.pc = "settled",
                      !.out = apiFetchJsonOnResponse(decoding.res, decoding.options)]
    /\ UNCHANGED <<localStorage, logout, login, save>>
    /\ UNCHANGED layerVars

\* ------------------------------------------------------------------- logout

\* logoutApi up to its return or to the await of its fetch: without a refresh
\* credential it returns at once, otherwise it posts the credential to
\* /api/auth/logout.
logoutApiStart(ls) ==
    LET refreshToken == getRefreshToken(ls)
    IN  IF ~Truthy(refreshToken)
        THEN [IdleLogout EXCEPT !.pc = "returned", !.refreshToken = refreshToken,
                                !.ret = Fulfilled(Undefined)]
        ELSE [IdleLogout EXCEPT !.pc = "fetch", !.refreshToken = refreshToken,
                                !.net = TRUE]

\* A plausible slip: the fetch is awaited outside a try, and its rejection
\* is the rejection of logoutApi.
logoutApiOnFetchNoCatch(p) ==
    IF p.k = "rejected" THEN Rejected ELSE Fulfilled(Undefined)

\* logoutApi resumed with the outcome of its fetch: the response is not
\* looked at, a rejection is caught, and logoutApi returns.
logoutApiOnFetch(p) == Fulfilled(Undefined)

\* redirectToLogin: the session is cleared (and the router sent to /login).
redirectToLogin(ls) == clearSession(ls)

\* The Logout button is pressed: the handler calls logoutApi.
LogoutClick ==
    /\ logout.pc = "idle"
    /\ logout' = logoutApiStart(localStorage)
    /\ UNCHANGED <<localStorage, decoding, login, save>>
    /\ UNCHANGED layerVars

\* The logout request is answered, with any status.
LogoutResponse ==
    /\ logout.pc = "fetch"
    /\ \E status \in DecodeStatuses :
         logout' = [logout EXCEPT !.pc = "returned",
                                  !.res = Append(@, status),
                                  !.ret = logoutApiOnFetch(Fulfilled(status))]
    /\ UNCHANGED <<localStorage, decoding, login, save>>
    /\ UNCHANGED layerVars

\* The logout request fails at transport level: fetch rejects.
LogoutTransportError ==
    /\ logout.pc = "fetch"
    /\ logout' = [logout EXCEPT !.pc = "returned",
                                !.ret = logoutApiOnFetch(Rejected)]
    /\ UNCHANGED <<localStorage, decoding, login, save>>
    /\ UNCHANGED layerVars

\* logoutApi has settled and the handler's finally runs redirectToLogin.
LogoutRedirect ==
    /\ logout.pc = "returned"
    /\ localStorage' = redirectToLogin(localStorage)
    /\ logout' = [logout EXCEPT !.pc = "done",
                                !.cleared = Append(@, redirectToLogin(localStorage))]
    /\ UNCHANGED <<decoding, login, save>>
    /\ UNCHANGED layerVars

\* The store a login leaves when the server sent no user.
WithoutUser(ls) == removeItem(ls, USER_KEY)

\* The stores a page can find when Logout is pressed: as a login left it,
\* after one or two refreshes, after withHeaders purged the access
\* credential, and after the session was cleared.
RefreshedStores(S) ==
    {refreshAccessTokenOnBody(ls, data).ls : ls \in S, data \in RefreshBodies}

SessionStores ==
    LET logins == LoginStores \cup {WithoutUser(ls) : ls \in LoginStores}
        refreshed == RefreshedStores(RefreshedStores(logins))
        purged == {withHeaders(ls).ls : ls \in refreshed}
    IN  refreshed \cup purged \cup {EmptyStore}

LogoutInit ==
    /\ localStorage \in SessionStores
    /\ LayerInit
    /\ PagesIdle

\* -------------------------------------------------------------------- login

\* A parsed login response body: { token?, accessToken?, refreshToken?, user? }.
LoginBody(t, a, r, u) ==
    [token |-> t, accessToken |-> a, refreshToken |-> r, user |-> u]

\* A user object, by the text of its members, and JSON.stringify of it.
User(members) == [t |-> "object", members |-> members]

JsonStringify(u) == <<"{">> \o u.members \o <<"}">>

\* The readErrorMessage of the login page: as the request layer's, but a
\* JSON string is not taken for the message.
loginReadErrorMessage(res) ==
    LET ct == Coalesce(res.contentType, Str(<<>>))
    IN  IF IncludesJson(ct) /\ res.body.json # SyntaxError
        THEN Or(Or(Field(res.body.json, "message"), Field(res.body.json, "error")),
                RequestFailed(res.status))
        ELSE IF ~IncludesJson(ct) /\ Trim(res.body.text.s) # <<>>
        THEN Str(Trim(res.body.text.s))
        ELSE RequestFailed(res.status)

MissingCredentials == Str(<<"Please enter email and password.">>)

NoAccessToken == Str(<<"Login succeeded but no access token was returned.">>)

NoRefreshToken == Str(<<"Login succeeded but no refresh token was returned.">>)

\* The message of a failed fetch or of a body that does not parse.
EngineMessage == Str(<<"TypeError">>)

\* handleSubmit up to its first await: blank fields are refused without a
\* network call.
handleSubmitStart(email, password) ==
    IF Trim(email) = <<>> \/ Trim(password) = <<>>
    THEN [IdleLogin EXCEPT !.pc = "done", !.error = MissingCredentials]
    ELSE [IdleLogin EXCEPT !.pc = "fetch", !.net = TRUE]

\* A plausible slip: the access credential is stored before the refresh
\* credential is looked at.
handleSubmitOnBodyStoresEarly(ls, data) ==
    LET accessToken == Coalesce(data.token, data.accessToken)
        refreshToken == data.refreshToken
    IN  IF ~Truthy(accessToken)
        THEN [ls |-> ls, error |-> NoAccessToken, navigated |-> FALSE]
        ELSE IF ~Truthy(refreshToken)
        THEN [ls |-> setItem(ls, ACCESS_TOKEN_KEY, accessToken.s),
              error |-> NoRefreshToken, navigated |-> FALSE]
        ELSE LET both == setItem(setItem(ls, ACCESS_TOKEN_KEY, accessToken.s),
                                 REFRESH_TOKEN_KEY, refreshToken.s)
             IN  [ls |-> IF Truthy(data.user)
                         THEN setItem(both, USER_KEY, JsonStringify(data.user))
                         ELSE both,
                  error |-> Null, navigated |-> TRUE]

\* handleSubmit resumed with the parsed body of a success response, up to
\* its end.
handleSubmitOnBody(ls, data) ==
    LET accessToken == Coalesce(data.token, data.accessToken)
        refreshToken == data.refreshToken
    IN  IF ~Truthy(accessToken)
        THEN [ls |-> ls, error |-> NoAccessToken, navigated |-> FALSE]
        ELSE IF ~Truthy(refreshToken)
        THEN [ls |-> ls, error |-> NoRefreshToken, navigated |-> FALSE]
        ELSE LET both == setItem(setItem(ls, ACCESS_TOKEN_KEY, accessToken.s),
                                 REFRESH_TOKEN_KEY, refreshToken.s)
             IN  [ls |-> IF Truthy(data.user)
                         THEN setItem(both, USER_KEY, JsonStringify(data.user))
                         ELSE both,
                  error |-> Null, navigated |-> TRUE]

\* What is typed into the form.
Emails == {<<"n", "@", "k">>, <<" ", "n", "@", "k">>, <<" ">>, <<>>}

Passwords == {<<"p", "w">>, <<" ">>}

\* The parsed bodies of a successful login response: the credential under
\* either field name, under both, with and without a user, without one of
\* the credentials, with an empty token before an accessToken, and with a
\* malformed access credential.
LoginBodies ==
    { LoginBody(Str(TokX), Undefined, Str(RefY), User(<<>>)),
      LoginBody(Undefined, Str(TokX), Str(RefY), Undefined),
      LoginBody(Str(TokX2), Str(TokX), Str(RefY2), User(<<>>)),
      LoginBody(Undefined, Undefined, Str(RefY), User(<<>>)),
      LoginBody(Str(TokX), Undefined, Undefined, User(<<>>)),
      LoginBody(Str(<<>>), Str(TokX), Str(RefY), User(<<>>)),
      LoginBody(Str(TokEmptySeg), Undefined, Str(RefY), User(<<>>)) }

\* The form is submitted.
LoginSubmit ==
    /\ login.pc = "idle"
    /\ \E email \in Emails : \E password \in Passwords :
         login' = handleSubmitStart(email, password)
    /\ UNCHANGED <<localStorage, decoding, logout, save>>
    /\ UNCHANGED layerVars

\* The login request is answered: a non-success response is an error with
\* the message read from it, a success response has its body read.
LoginResponse ==
    /\ login.pc = "fetch"
    /\ \E res \in Responses :
         login' = IF ~ResOk(res.status)
                  THEN [login EXCEPT !.pc = "done",
                                     !.res = Append(@, res.status),
                                     !.error = loginReadErrorMessage(res)]
                  ELSE [login EXCEPT !.pc = "json",
                                     !.res = Append(@, res.status)]
    /\ UNCHANGED <<localStorage, decoding, logout, save>>
    /\ UNCHANGED layerVars

\* The login request fails at transport level.
LoginTransportError ==
    /\ login.pc = "fetch"
    /\ login' = [login EXCEPT !.pc = "done", !.error = EngineMessage]
    /\ UNCHANGED <<localStorage, decoding, logout, save>>
    /\ UNCHANGED layerVars

\* res.json() gives the parsed body.
LoginParsed ==
    /\ login.pc = "json"
    /\ \E data \in LoginBodies :
         LET n == handleSubmitOnBody(localStorage, data)
         IN  /\ localStorage' = n.ls
             /\ login' = [login EXCEPT !.pc = "done", !.data = data,
                                       !.error = n.error,
                                       !.navigated = n.navigated]
    /\ UNCHANGED <<decoding, logout, save>>
    /\ UNCHANGED layerVars

\* res.json() rejects: the success body is not JSON.
LoginBodyMalformed ==
    /\ login.pc = "json"
    /\ login' = [login EXCEPT !.pc = "done", !.error = EngineMessage]
    /\ UNCHANGED <<localStorage, decoding, logout, save>>
    /\ UNCHANGED layerVars

\* The login page is shown with the store as any page can have left it.
LoginInit ==
    /\ localStorage \in SessionStores
    /\ LayerInit
    /\ PagesIdle

\* ------------------------------------------------------------- profile save

StatusMethodNotAllowed == 405

\* A loaded profile and the form's fields.
NurseProfile(fullName, name, facility, shiftPreference) ==
    [t |-> "object", fullName |-> fullName, name |-> name, facility |-> facility,
     shiftPreference |-> shiftPreference]

Form(fullName, facility, shiftPreference) ==
    [fullName |-> fullName, facility |-> facility,
     shiftPreference |-> shiftPreference]

Day == <<"Day">>

Night == <<"Night">>

\* normalizeShift: Night stays, anything else is Day.
normalizeShift(v) == IF v = Str(Night) THEN Night ELSE Day

\* buildPatchPayload: the fields whose trimmed value differs from the
\* profile's, the name under the key the profile uses; undefined marks a
\* key that is not in the payload.
buildPatchPayload(original, next) ==
    LET nameNow == Trim(next.fullName)
        facilityNow == Trim(next.facility)
        shiftNow == next.shiftPreference
        nameOrig == Trim(Coalesce(Coalesce(original.fullName, original.name),
                                  Str(<<>>)).s)
        facilityOrig == Trim(Coalesce(original.facility, Str(<<>>)).s)
        shiftOrig == normalizeShift(original.shiftPreference)
        key == IF original.fullName # Undefined THEN "fullName" ELSE "name"
    IN  [fullName |-> IF nameOrig # nameNow /\ key = "fullName"
                      THEN Str(nameNow) ELSE Undefined,
         name |-> IF nameOrig # nameNow /\ key = "name"
                  THEN Str(nameNow) ELSE Undefined,
         facility |-> IF facilityOrig # facilityNow
                      THEN Str(facilityNow) ELSE Undefined,
         shiftPreference |-> IF shiftOrig # shiftNow
                             THEN Str(shiftNow) ELSE Undefined]

\* Object.keys(payload)
Keys(payload) == {k \in DOMAIN payload : payload[k] # Undefined}

Saved == Str(<<"Saved!">>)

NoChanges == Str(<<"No changes to save.">>)

\* saveProfile up to its first await.
saveProfileStart(profile, form) ==
    IF ~Truthy(profile)
    THEN [IdleSave EXCEPT !.pc = "done", !.profile = profile, !.form = form]
    ELSE LET payload == buildPatchPayload(profile, form)
         IN  IF Keys(payload) = {}
             THEN [IdleSave EXCEPT !.pc = "done", !.profile = profile,
                                   !.form = form, !.payload = payload,
                                   !.success = NoChanges]
             ELSE [IdleSave EXCEPT !.pc = "patch", !.profile = profile,
                                   !.form = form, !.payload = payload,
                                   !.sent = <<"PATCH">>]

\* A plausible slip: any failure of the PATCH but a 401 is retried as PUT.
saveProfileOnPatchAnyErrorPuts(o) ==
    IF o.k = "returned" THEN (IF Truthy(o.v) THEN "saved" ELSE "reload")
    ELSE IF o.status = Num(StatusUnauthorized) THEN "redirect"
    ELSE "put"

\* What saveProfile does with the outcome of the PATCH: the profile came
\* back, nothing came back and the profile is reloaded, a 401 redirects, a
\* 404 or 405 falls back to PUT, any other error is shown.
saveProfileOnPatch(o) ==
    IF o.k = "returned" THEN (IF Truthy(o.v) THEN "saved" ELSE "reload")
    ELSE IF o.status = Num(StatusUnauthorized) THEN "redirect"
    ELSE IF o.status \in {Num(StatusNotFound), Num(StatusMethodNotAllowed)}
    THEN "put"
    ELSE "error"

\* What saveProfile does with the outcome of the PUT: its error is thrown
\* to the outer catch, where a 401 redirects and any other is shown.
saveProfileOnPut(o) ==
    IF o.k = "returned" THEN (IF Truthy(o.v) THEN "saved" ELSE "reload")
    ELSE IF o.status = Num(StatusUnauthorized) THEN "redirect"
    ELSE "error"

\* What loadProfile does with the outcome of its GET; it never throws.
loadProfileOnGet(o) ==
    IF o.k = "returned" THEN "loaded"
    ELSE IF o.status = Num(StatusUnauthorized) THEN "redirect"
    ELSE "error"

\* The store apiFetch leaves when it returns a response of the status given:
\* cleared with a 401, otherwise as it was, or as a refresh or a purge on
\* the way left it.
apiFetchLeaves(ls, status) ==
    IF status = StatusUnauthorized THEN {clearSession(ls)}
    ELSE {ls, withHeaders(ls).ls} \cup RefreshedStores({ls})

\* The responses apiFetch returns to the profile page.
SaveResponses ==
    {Response(s, ct, b) :
        s \in DecodeStatuses \cup {StatusMethodNotAllowed},
        ct \in {Str(<<ApplicationJson>>), Str(<<"text/html">>)},
        b \in { Payload(Obj(Str(<<"denied">>), Undefined),
                        Str(<<"{\"message\":\"denied\"}">>)),
                Payload(Obj(Undefined, Undefined), Str(<<"{}">>)),
                Payload(SyntaxError, Str(<<" ", "gateway down", " ">>)),
                Payload(SyntaxError, Str(<<>>)) }}

\* allowNoJson: true, and the reload's default.
AllowNoJsonOption == [allowNoJson |-> Bool(TRUE)]

NoOption == [allowNoJson |-> Undefined]

\* The step of saveProfile that follows from what it decided: the banners,
\* the redirect, the next request.
SaveStep(s, ls, o, decided) ==
    LET t == [s EXCEPT !.outs = Append(@, o)]
    IN  CASE decided = "saved" ->
               [ls |-> ls, save |-> [t EXCEPT !.pc = "done", !.success = Saved]]
          [] decided = "reload" ->
               [ls |-> ls, save |-> [t EXCEPT !.pc = "reload",
                                              !.sent = Append(@, "GET")]]
          [] decided = "put" ->
               [ls |-> ls, save |-> [t EXCEPT !.pc = "put",
                                              !.sent = Append(@, "PUT")]]
          [] decided = "redirect" ->
               [ls |-> redirectToLogin(ls),
                save |-> [t EXCEPT !.pc = "done", !.redirected = TRUE,
                                   !.cleared = Append(@, redirectToLogin(ls))]]
          [] decided = "error" ->
               [ls |-> ls, save |-> [t EXCEPT !.pc = "done", !.error = o.message]]

\* Save is pressed with a profile loaded or not and the form filled in.
SaveClick ==
    /\ save.pc = "idle"
    /\ save' = saveProfileStart(save.profile, save.form)
    /\ UNCHANGED <<localStorage, decoding, logout, login>>
    /\ UNCHANGED layerVars

\* The PATCH settles.
SavePatchSettles ==
    /\ save.pc = "patch"
    /\ \E res \in SaveResponses : \E ls \in apiFetchLeaves(localStorage, res.status) :
         LET o == apiFetchJsonOnResponse(res, AllowNoJsonOption)
             n == SaveStep(save, ls, o, saveProfileOnPatch(o))
         IN  localStorage' = n.ls /\ save' = n.save
    /\ UNCHANGED <<decoding, logout, login>>
    /\ UNCHANGED layerVars

\* The PUT settles.
SavePutSettles ==
    /\ save.pc = "put"
    /\ \E res \in SaveResponses : \E ls \in apiFetchLeaves(localStorage, res.status) :
         LET o == apiFetchJsonOnResponse(res, AllowNoJsonOption)
             n == SaveStep(save, ls, o, saveProfileOnPut(o))
         IN  localStorage' = n.ls /\ save' = n.save
    /\ UNCHANGED <<decoding, logout, login>>
    /\ UNCHANGED layerVars

\* A request of saveProfile fails at transport level: apiFetchJson throws
\* an error without a status, which is shown (after the reload's GET,
\* loadProfile shows it and saveProfile goes on to report the save).
SaveTransportError ==
    /\ save.pc \in {"patch", "put", "reload"}
    /\ LET o == Throws(EngineMessage, Undefined)
       IN  save' = [save EXCEPT !.pc = "done", !.outs = Append(@, o),
                                !.error = o.message,
                                !.success = IF save.pc = "reload" THEN Saved ELSE @]
    /\ UNCHANGED <<localStorage, decoding, logout, login>>
    /\ UNCHANGED layerVars

\* The reload's GET settles: loadProfile takes the profile, redirects on a
\* 401 or shows the error, and saveProfile then reports the save.
SaveReloadSettles ==
    /\ save.pc = "reload"
    /\ \E res \in SaveResponses : \E ls \in apiFetchLeaves(localStorage, res.status) :
         LET o == apiFetchJsonOnResponse(res, NoOption)
             decided == loadProfileOnGet(o)
             t == [save EXCEPT !.pc = "done", !.outs = Append(@, o),
                               !.success = Saved]
         IN  CASE decided = "loaded" ->
                    localStorage' = ls /\ save' = t
               [] decided = "redirect" ->
                    /\ localStorage' = redirectToLogin(ls)
                    /\ save' = [t EXCEPT !.redirected = TRUE,
                                         !.cleared = Append(@, redirectToLogin(ls))]
               [] decided = "error" ->
                    localStorage' = ls /\ save' = [t EXCEPT !.error = o.message]
    /\ UNCHANGED <<decoding, logout, login>>
    /\ UNCHANGED layerVars

\* The profiles the page has loaded (null: none yet) and the forms.
Ann == <<"A", "n", "n">>

Bob == <<"B", "o", "b">>

Icu == <<"I", "C", "U">>

Profiles ==
    { Null,
      NurseProfile(Str(Ann), Undefined, Str(Icu), Str(Night)),
      NurseProfile(Undefined, Str(Bob), Undefined, Undefined),
      NurseProfile(Str(<<" ">> \o Ann), Str(Bob), Str(Icu), Str(<<"Evening">>)) }

Forms ==
    {Form(n, f, s) : n \in {Ann, Ann \o <<" ">>, Bob},
                     f \in {Icu, <<>>}, s \in {Day, Night}}

\* The profile page is shown, the profile loaded or not, the form filled in.
SaveInit ==
    /\ localStorage \in LoginStores
    /\ LayerInit
    /\ decoding = IdleDecoding
    /\ logout = IdleLogout
    /\ login = IdleLogin
    /\ save \in {[IdleSave EXCEPT !.profile = p, !.form = f] :
                  p \in Profiles, f \in Forms}

\* ----------------------------------------------------------- specification

Next ==
    \/ \E c \in Calls : apiFetchStart(c)
    \/ \E c \in Calls : apiFetchResponse(c)
    \/ \E c \in Calls : apiFetchTransportError(c)
    \/ \E c \in Calls : apiFetchResumed(c)
    \/ \E c \in Calls : apiFetchRetryResponse(c)
    \/ \E r \in Tasks : RefreshResponse(r)
    \/ \E r \in Tasks : RefreshTransportError(r)
    \/ \E r \in Tasks : RefreshBody(r)
    \/ \E r \in Tasks : RefreshBodyMalformed(r)
    \/ \E r \in Tasks : RefreshSettled(r)

Spec == Init /\ [][Next]_vars

\* A network call that is out settles, with a response or a transport
\* failure, and a body that is being read is read or fails to parse.
FirstSendSettles(c) ==
    (call[c].pc = "fetch1" /\ (apiFetchResponse(c) \/ apiFetchTransportError(c)))

RetrySendSettles(c) ==
    (call[c].pc = "fetch2" /\ (apiFetchRetryResponse(c) \/ apiFetchTransportError(c)))

ExchangeSettles(r) ==
    \/ RefreshResponse(r)
    \/ RefreshTransportError(r)
    \/ RefreshBody(r)
    \/ RefreshBodyMalformed(r)

\* The request layer when every network call eventually settles and the
\* promise reactions (the .catch/.finally of refreshOnce, the resumption of
\* an awaiting call) run once their promise has settled.  Nothing obliges a
\* new call to start.
SpecLive ==
    /\ Init
    /\ [][Next]_vars
    /\ \A c \in Calls : WF_vars(FirstSendSettles(c))
    /\ \A c \in Calls : WF_vars(RetrySendSettles(c))
    /\ \A c \in Calls : WF_vars(apiFetchResumed(c))
    /\ \A r \in Tasks : WF_vars(ExchangeSettles(r))
    /\ \A r \in Tasks : WF_vars(RefreshSettled(r))

\* The decoder on its own: apiFetchJson from the response of its apiFetch.
DecodeNext == apiFetchJsonResumed

SpecDecode == DecodeInit /\ [][DecodeNext]_vars

\* The Logout handler on its own, from any store a page can find.
LogoutNext ==
    \/ LogoutClick
    \/ LogoutResponse
    \/ LogoutTransportError
    \/ LogoutRedirect

SpecLogout == LogoutInit /\ [][LogoutNext]_vars

\* The login form's handler on its own.
LoginNext ==
    \/ LoginSubmit
    \/ LoginResponse
    \/ LoginTransportError
    \/ LoginParsed
    \/ LoginBodyMalformed

SpecLogin == LoginInit /\ [][LoginNext]_vars

\* The profile page's save handler on its own.
SaveNext ==
    \/ SaveClick
    \/ SavePatchSettles
    \/ SavePutSettles
    \/ SaveReloadSettles
    \/ SaveTransportError

SpecSave == SaveInit /\ [][SaveNext]_vars

TypeOK ==
    /\ localStorage \in [StoreKeys -> {Null} \cup
          {Str(s) : s \in {TokX, TokX2, TokEmptySeg, TokTwoSeg, RefY, RefY2, UserJson}}]
    /\ refreshInFlight \in Tasks \cup {NoHandle}
    /\ \A c \in Calls : Len(call[c].sent) >= Len(call[c].res)

\* ============================================================== properties

\* The tasks whose exchange with /api/auth/refresh is under way: sent and
\* not yet answered, or answered with its body still being read.
Outstanding == {r \in Tasks : task[r].pc \in {"fetch", "json"}}

\* The tasks that sent an exchange.
NetRefresh == {r \in Tasks : task[r].net}

StartedTasks == {r \in Tasks : task[r].pc # "unused"}

\* The calls whose refreshOnce found the handle empty: they started a task.
Starters == {c \in Calls : call[c].awaiting # NoHandle /\ call[c].saw = NoHandle}

\* The calls whose refreshOnce found a refresh pending.
Attached == {c \in Calls : call[c].awaiting # NoHandle /\ call[c].saw # NoHandle}

\* The call has returned a response; its status.
Returned(c) == call[c].ret \in {"first", "retry"}

ReturnedStatus(c) ==
    IF call[c].ret = "first" THEN call[c].res[1] ELSE call[c].res[2]

\* The sends after the first, over the calls of S.
RECURSIVE RetrySends(_)
RetrySends(S) ==
    IF S = {} THEN 0
    ELSE LET c == CHOOSE x \in S : TRUE
         IN  (IF Len(call[c].sent) > 1 THEN Len(call[c].sent) - 1 ELSE 0)
             + RetrySends(S \ {c})

\* refreshOnce gave the call null.
GotNull(c) == call[c].newToken = Fulfilled(Null)

\* Three non-empty segments separated by dots, said without split: exactly
\* two dots, neither first nor last nor next to each other.
ThreeSegments(s) ==
    LET dots == {i \in 1..Len(s) : s[i] = "."}
    IN  /\ Cardinality(dots) = 2
        /\ \A i \in dots : i > 1 /\ i < Len(s) /\ i + 1 \notin dots

\* C1: at most one refresh exchange is outstanding at any time, and a
\* refreshOnce call made while the handle is non-null starts no task: it
\* awaits the task of the handle, so the tasks started are as many as the
\* refreshOnce calls that found the handle empty.
C1_SingleRefreshInFlight ==
    /\ Cardinality(Outstanding) <= 1
    /\ \A c \in Attached : call[c].awaiting = call[c].saw
    /\ Cardinality(StartedTasks) = Cardinality(Starters)

\* A call got its 401 while the exchange another call started was out.
C1_Witness ==
    \E c \in Attached : task[call[c].saw].pc = "fetch" /\ task[call[c].saw].net

\* C2: a call whose 401 came while a refresh was pending receives from
\* refreshOnce the same outcome as the call that started that refresh: the
\* same new credential, or null for both.
C2_SameOutcome ==
    \A c \in Attached : \A d \in Starters :
        (/\ call[d].awaiting = call[c].saw
         /\ call[c].newToken # Pending
         /\ call[d].newToken # Pending)
        => /\ call[c].newToken = call[d].newToken
           /\ call[c].newToken.k = "fulfilled"
           /\ (call[c].newToken.v = Null \/ Truthy(call[c].newToken.v))

\* Two calls shared one refresh and both resumed with the new credential.
C2_Witness ==
    \E c \in Attached : \E d \in Starters :
        /\ call[d].awaiting = call[c].saw
        /\ call[c].newToken = Fulfilled(Str(TokX2))
        /\ call[d].newToken = Fulfilled(Str(TokX2))

\* All the calls were in flight together, each got a 401 to its first send,
\* and all have finished.
AllExpiredTogether ==
    /\ concurrent
    /\ \A c \in Calls :
         call[c].pc = "done" /\ Len(call[c].res) >= 1
         /\ call[c].res[1] = StatusUnauthorized

\* C3 as stated: N concurrent calls that each get a 401 to their first send
\* make exactly 1 refresh network call in total and at most N retry sends.
C3_Original ==
    AllExpiredTogether =>
        Cardinality(NetRefresh) = 1 /\ RetrySends(Calls) <= NumCalls

\* C3, amended: N concurrent calls that each get a 401 to their first send
\* make at most one refresh network call per call that handled its 401 while
\* the handle was empty (one call only when all the others handle theirs
\* while that refresh is pending), and at most N retry sends.
C3_OneRefreshPerEmptyHandle ==
    AllExpiredTogether =>
        /\ Cardinality(NetRefresh) <= Cardinality(Starters)
        /\ (Cardinality(Starters) = 1 => Cardinality(NetRefresh) = 1)
        /\ RetrySends(Calls) <= NumCalls

\* Every call got a 401, one refresh served them all and every call retried.
C3_Witness ==
    /\ AllExpiredTogether
    /\ Cardinality(Starters) = 1
    /\ Cardinality(Attached) = NumCalls - 1
    /\ Cardinality(NetRefresh) = 1
    /\ RetrySends(Calls) = NumCalls

\* C4: a logical call sends the resource request at most twice; a call whose
\* retry is answered 401 as well has sent exactly twice, returns the retry's
\* response and has cleared the session when it returns.
C4_AtMostTwoSends ==
    \A c \in Calls :
        /\ Len(call[c].sent) <= 2
        /\ (Len(call[c].res) = 2 /\ call[c].res[2] = StatusUnauthorized)
           => /\ call[c].pc = "done"
              /\ Len(call[c].sent) = 2
              /\ call[c].ret = "retry"
              /\ call[c].cleared = <<EmptyStore>>

\* A call whose retry was refused again.
C4_Witness ==
    \E c \in Calls : call[c].res = <<StatusUnauthorized, StatusUnauthorized>>

\* C5: when the first response is 401 and refreshOnce gives null, whatever
\* the reason, apiFetch sends no retry, removes the three session fields and
\* returns the original 401 response.
C5_NullRefreshClearsAndReturnsOriginal ==
    \A c \in Calls :
        GotNull(c)
        => /\ call[c].pc = "done"
           /\ call[c].sent = <<call[c].sent[1]>>
           /\ call[c].res = <<StatusUnauthorized>>
           /\ call[c].ret = "first"
           /\ call[c].cleared = <<EmptyStore>>

\* Two calls got null for different reasons: one because the exchange failed
\* at transport level, the other because no refresh credential was stored.
C5_Witness ==
    \E c, d \in Calls :
        /\ GotNull(c) /\ task[call[c].awaiting].ret = Rejected
        /\ GotNull(d) /\ ~task[call[d].awaiting].net

\* C6: when the refresh exchange is answered 401, the refresh removes the
\* three session fields and resolves to null: it does not throw.
C6_RefreshUnauthorizedClears ==
    \A r \in Tasks :
        task[r].res = <<StatusUnauthorized>>
        => /\ task[r].cleared = <<EmptyStore>>
           /\ task[r].ret = Fulfilled(Null)
           /\ (task[r].pc = "settled" => task[r].out = Fulfilled(Null))

\* An exchange was answered 401 and its callers were given the outcome.
C6_Witness ==
    \E r \in Tasks : \E c \in Calls :
        /\ task[r].res = <<StatusUnauthorized>>
        /\ call[c].awaiting = r /\ GotNull(c)

\* C7: refreshOnce never rejects: whatever the exchange does (a transport
\* exception and a malformed success body included), its promise is
\* fulfilled, with an access credential or with null, and no call gets an
\* exception out of it.
C7_RefreshOnceNeverRejects ==
    /\ \A r \in Tasks :
         task[r].pc = "settled"
         => /\ task[r].out.k = "fulfilled"
            /\ (task[r].out.v = Null \/ Truthy(task[r].out.v))
    /\ \A c \in Calls :
         call[c].newToken # Pending => call[c].newToken.k = "fulfilled"

\* The success body was malformed, refreshAccessToken rejected, and the
\* caller resumed with null.
C7_Witness ==
    \E c \in Calls :
        /\ call[c].awaiting # NoHandle
        /\ task[call[c].awaiting].res = <<StatusOk>>
        /\ task[call[c].awaiting].ret = Rejected
        /\ GotNull(c)

\* The Authorization header carries a credential of three non-empty segments.
WellFormedBearer(h) ==
    /\ h.t = "string"
    /\ Len(h.s) > 1
    /\ Head(h.s) = "Bearer "
    /\ ThreeSegments(Tail(h.s))

\* The store holds an access credential that is not three non-empty
\* dot-separated segments.
MalformedStored == 
    /\ getAccessToken(localStorage).t = "string"
    /\ ~ThreeSegments(getAccessToken(localStorage).s)

\* Call c sends in this step (the first send or the retry).
Sends(c) == Len(call'[c].sent) = Len(call[c].sent) + 1

\* C8: a stored access credential that is not three non-empty dot-separated
\* segments is never attached to a request (every Authorization header that
\* is sent carries a well-formed credential), and the next send removes it
\* from the store and goes out without a credential.
C8_MalformedNeverAttached ==
    /\ [](\A c \in Calls : \A i \in 1..Len(call[c].sent) :
            call[c].sent[i] = Undefined \/ WellFormedBearer(call[c].sent[i]))
    /\ [][\A c \in Calls :
            (Sends(c) /\ MalformedStored)
            => /\ getAccessToken(localStorage') = Null
               /\ call'[c].sent[Len(call'[c].sent)] = Undefined]_vars

\* A refresh stored a two-segment credential, and the retry that followed
\* went out without a credential and purged it: the refresh credential is
\* still stored, the access credential is gone.
C8_Witness ==
    \E c \in Calls :
        /\ call[c].newToken = Fulfilled(Str(TokTwoSeg))
        /\ Len(call[c].sent) = 2
        /\ call[c].sent[2] = Undefined
        /\ getAccessToken(localStorage) = Null
        /\ getRefreshToken(localStorage) # Null

\* C9: a logical call clears the session if and only if the response it
\* returns has status 401.  A returned 401 comes with an empty store at the
\* moment of the return (the clear is the last thing apiFetch does before
\* it); a call that returns another status has never called clearSession,
\* neither in apiFetch nor in the refresh it awaited.
C9_ClearsIffReturns401 ==
    \A c \in Calls :
        Returned(c)
        => /\ (ReturnedStatus(c) = StatusUnauthorized) <=> (call[c].cleared # <<>>)
           /\ ReturnedStatus(c) = StatusUnauthorized
              => call[c].cleared = <<EmptyStore>>
           /\ (ReturnedStatus(c) # StatusUnauthorized /\ call[c].awaiting # NoHandle)
              => task[call[c].awaiting].cleared = <<>>

\* One call returned a 401 and cleared; another was refreshed, retried,
\* returned a success and cleared nothing.
C9_Witness ==
    \E c, d \in Calls :
        /\ Returned(c) /\ ReturnedStatus(c) = StatusUnauthorized
        /\ call[c].cleared = <<EmptyStore>>
        /\ Returned(d) /\ call[d].ret = "retry" /\ ReturnedStatus(d) = StatusOk
        /\ call[d].cleared = <<>>

\* The refresh the call awaited gave no credential.
RefreshFailed(c) == GotNull(c)

\* The retry of the call was answered 401.
RetryFailed(c) ==
    Len(call[c].res) = 2 /\ call[c].res[2] = StatusUnauthorized

\* C10 as stated: a 401 reaches the caller only if the refresh or the retry
\* failed as well, and then the session is cleared and the response handed
\* back is the original one, of the first send.
C10_Original ==
    \A c \in Calls :
        (Returned(c) /\ ReturnedStatus(c) = StatusUnauthorized)
        => /\ RefreshFailed(c) \/ RetryFailed(c)
           /\ call[c].cleared = <<EmptyStore>>
           /\ call[c].ret = "first"

\* C10, amended: a 401 reaches the caller only if the refresh or the retry
\* failed as well, and then the session is cleared; the response handed back
\* is the original one when the refresh failed and the retry's when the
\* retry failed.
C10_SurfacedOnlyAfterFailure ==
    \A c \in Calls :
        (Returned(c) /\ ReturnedStatus(c) = StatusUnauthorized)
        => /\ RefreshFailed(c) \/ RetryFailed(c)
           /\ call[c].cleared = <<EmptyStore>>
           /\ RefreshFailed(c) => call[c].ret = "first" /\ Len(call[c].sent) = 1
           /\ RetryFailed(c) => call[c].ret = "retry"

\* Both ways of surfacing: one call was handed its original response after
\* a failed refresh, another its retry's response.
C10_Witness ==
    \E c, d \in Calls :
        /\ Returned(c) /\ RefreshFailed(c) /\ call[c].ret = "first"
        /\ Returned(d) /\ RetryFailed(d) /\ call[d].ret = "retry"

\* C11: a call whose first response is not 401 has returned that response
\* after exactly one send, whatever the status: it has not run refreshOnce,
\* awaits no refresh and has cleared nothing.
C11_Non401ReturnedAsIs ==
    \A c \in Calls :
        (Len(call[c].res) >= 1 /\ call[c].res[1] # StatusUnauthorized)
        => /\ call[c].pc = "done"
           /\ call[c].ret = "first"
           /\ Len(call[c].sent) = 1
           /\ Len(call[c].res) = 1
           /\ call[c].awaiting = NoHandle
           /\ call[c].newToken = Pending
           /\ call[c].cleared = <<>>

\* One call returned a 500 and another a 200 to their first send, no refresh
\* was started and the session is still stored.
C11_Witness ==
    /\ \E c \in Calls : call[c].ret = "first" /\ call[c].res = <<StatusServerError>>
    /\ \E c \in Calls : call[c].ret = "first" /\ call[c].res = <<StatusOk>>
    /\ StartedTasks = {}
    /\ Truthy(getRefreshToken(localStorage))

\* C12: the handle never holds a refresh that has settled, whatever the
\* refresh settled to (a credential, null or a rejection); the handle is
\* empty at the moment a caller of refreshOnce is about to resume with the
\* outcome; and a call that found the handle empty started a task of its own.
C12_HandleEmptiedOnSettle ==
    /\ \A r \in Tasks : task[r].pc = "settled" => refreshInFlight # r
    /\ \A c \in Calls :
         (call[c].pc = "refresh" /\ task[call[c].awaiting].pc = "settled")
         => refreshInFlight = NoHandle
    /\ \A c \in Starters : \A d \in Starters :
         c # d => call[c].awaiting # call[d].awaiting

\* A refresh settled with a rejection, the handle was emptied, and the next
\* 401 found it empty and started a new refresh, which the handle now holds.
C12_Witness ==
    \E r \in Tasks : \E q \in Tasks :
        /\ task[r].pc = "settled"
        /\ task[r].ret = Rejected
        /\ q # r
        /\ refreshInFlight = q
        /\ \E c \in Starters : call[c].awaiting = q

\* The access credential a refresh response body supplies: the accessToken
\* field when the body has one, the token field otherwise.
SuppliedAccess(data) ==
    IF data.accessToken.t \in {"undefined", "null"} THEN data.token
    ELSE data.accessToken

\* The body carries an access credential: a non-empty string.
CarriesAccess(data) ==
    SuppliedAccess(data).t = "string" /\ SuppliedAccess(data).s # <<>>

\* The step in which refreshAccessToken of task r resumes with a parsed body.
BodyParsed(r) ==
    /\ task[r].pc = "json"
    /\ task'[r].pc = "returned"
    /\ task'[r].data # Undefined

C14_NoCredentialKeepsSession ==
    [][\A r \in Tasks :
         (BodyParsed(r) /\ ~CarriesAccess(task'[r].data))
         => /\ task'[r].ret = Fulfilled(Null)
            /\ task'[r].cleared = task[r].cleared
            /\ \A k \in StoreKeys : getItem(localStorage', k) = getItem(localStorage, k)]_vars

\* A refresh whose response had neither field has returned null and the
\* session the login stored is still there.
C14_Witness ==
    \E r \in Tasks :
        /\ task[r].pc = "returned"
        /\ task[r].data = Body(Undefined, Undefined, Str(RefY2))
        /\ task[r].ret = Fulfilled(Null)
        /\ task[r].cleared = <<>>
        /\ localStorage \in LoginStores

\* The store holds a refresh credential and no access credential.
RefreshWithoutAccess(ls) ==
    Truthy(getRefreshToken(ls)) /\ ~Truthy(getAccessToken(ls))

\* C15 as stated: in every reachable state a stored refresh credential comes
\* with a stored access credential.
C15_Original == ~RefreshWithoutAccess(localStorage)

\* C15, amended: a refresh credential is stored without an access credential
\* only after withHeaders has purged a malformed access credential: every
\* step that brings the store to that state is a send whose withHeaders
\* found a malformed credential stored, and clearSession never leaves it so.
C15_RefreshAloneOnlyAfterPurge ==
    /\ [](\A c \in Calls : \A i \in 1..Len(call[c].cleared) :
            ~RefreshWithoutAccess(call[c].cleared[i]))
    /\ [](\A r \in Tasks : \A i \in 1..Len(task[r].cleared) :
            ~RefreshWithoutAccess(task[r].cleared[i]))
    /\ [][(RefreshWithoutAccess(localStorage') /\ ~RefreshWithoutAccess(localStorage))
          => (MalformedStored /\ \E c \in Calls : Sends(c))]_vars

\* withHeaders has purged a malformed access credential: a request went out
\* without credentials and the refresh credential is still stored.
C15_Witness ==
    /\ RefreshWithoutAccess(localStorage)
    /\ \E c \in Calls : call[c].pc = "fetch1" /\ call[c].sent = <<Undefined>>

\* Call a got a 401 with an expired credential, started the refresh, resumed
\* with a well-formed new credential and its retry succeeded; the server has
\* answered no other call with 401.
RefreshedAndAccepted(a) ==
    /\ call[a].res = <<StatusUnauthorized, StatusOk>>
    /\ a \in Starters
    /\ call[a].newToken.k = "fulfilled"
    /\ Truthy(call[a].newToken.v)
    /\ ThreeSegments(call[a].newToken.v.s)
    /\ \A c \in Calls \ {a} : \A i \in 1..Len(call[c].res) :
          call[c].res[i] # StatusUnauthorized

\* C16: after a call with an expired credential has triggered a refresh that
\* gave X' and its retry has succeeded, and for as long as the server answers
\* no 401, the store holds X', every call started from then on attaches X',
\* and no other refresh is started.
C16_RefreshedCredentialReused ==
    /\ [](\A a \in Calls :
            RefreshedAndAccepted(a)
            => /\ getAccessToken(localStorage) = call[a].newToken.v
               /\ Cardinality(StartedTasks) = 1
               /\ \A c \in Calls \ {a} : call[c].awaiting = NoHandle)
    /\ [][\A a \in Calls : \A c \in Calls \ {a} :
            (RefreshedAndAccepted(a) /\ call[c].pc = "idle" /\ call'[c].pc # "idle")
            => call'[c].sent = <<Str(Bearer(call[a].newToken.v.s))>>]_vars

\* A call refreshed to the new credential and its retry succeeded; a later
\* call attached the new credential, was accepted, and one refresh was made.
C16_Witness ==
    \E a \in Calls : \E c \in Calls \ {a} :
        /\ RefreshedAndAccepted(a)
        /\ call[a].sent[1] = Str(Bearer(TokX))
        /\ call[a].newToken = Fulfilled(Str(TokX2))
        /\ call[c].sent = <<Str(Bearer(TokX2))>>
        /\ call[c].res = <<StatusOk>>
        /\ Cardinality(NetRefresh) = 1

\* C17: a refresh that found no refresh credential stored has returned null
\* at once: it made no network call, got no response and read no body, and
\* was never waiting for the refresh endpoint.
C17_NoRefreshCredentialNoExchange ==
    \A r \in StartedTasks :
        ~Truthy(task[r].refreshToken)
        => /\ ~task[r].net
           /\ task[r].pc \in {"returned", "settled"}
           /\ task[r].res = <<>>
           /\ task[r].data = Undefined
           /\ task[r].ret = Fulfilled(Null)

\* A 401 asked for a refresh after the session had been cleared: the refresh
\* has returned null without a network call and its caller still awaits it.
C17_Witness ==
    \E r \in Tasks : \E c \in Calls :
        /\ call[c].pc = "refresh"
        /\ call[c].awaiting = r
        /\ task[r].pc = "returned"
        /\ task[r].refreshToken = Null
        /\ ~task[r].net
        /\ task[r].ret = Fulfilled(Null)

\* apiFetchJson has settled on a response of the kind given.
Decoded == decoding.pc = "settled"

NonSuccess == decoding.res.status < 200 \/ decoding.res.status > 299

\* The response has no content-type header naming JSON.
NonJsonType ==
    \/ decoding.res.contentType = Null
    \/ \A i \in 1..Len(decoding.res.contentType.s) :
          decoding.res.contentType.s[i] # "application/json"

\* A success response without a JSON body: 204, or not labelled JSON.
NoJsonSuccess ==
    ~NonSuccess /\ (decoding.res.status = 204 \/ NonJsonType)

AllowNoJson == decoding.options.allowNoJson = Bool(TRUE)

\* The decode failures: a non-success status, or a success without a JSON
\* body when allowNoJson is not set.
DecodeFailure == Decoded /\ (NonSuccess \/ (NoJsonSuccess /\ ~AllowNoJson))

C19_AllowNoJsonOnlyOnSuccess ==
    Decoded
    => /\ NoJsonSuccess =>
            IF AllowNoJson THEN decoding.out = Returns(Null)
            ELSE /\ decoding.out.k = "threw"
                 /\ decoding.out.message \in {NoContentMessage, NonJsonMessage}
       /\ NonSuccess => decoding.out.k = "threw"

\* A 204 under allowNoJson was decoded to null.
C19_Witness ==
    /\ Decoded
    /\ decoding.res.status = StatusNoContent
    /\ AllowNoJson
    /\ decoding.out = Returns(Null)

\* C20: logoutApi never throws, whether its request is answered or fails at
\* transport level; it makes a network call only when a refresh credential
\* is stored; no step of it changes the session store; and the store changes
\* only when, after logoutApi has settled, the handler's redirectToLogin
\* clears it.
C20_LogoutBestEffort ==
    /\ [](logout.pc \in {"returned", "done"} => logout.ret = Fulfilled(Undefined))
    /\ [][(logout.pc = "idle" /\ logout'.pc # "idle")
          => (logout'.net <=> (getItem(localStorage, REFRESH_TOKEN_KEY) # Null))]_vars
    /\ []((logout.pc # "idle" /\ ~logout.net)
          => (logout.res = <<>> /\ logout.pc # "fetch"))
    /\ [][(logout.pc \in {"idle", "fetch"} /\ logout' # logout)
          => localStorage' = localStorage]_vars
    /\ [][localStorage' # localStorage
          => /\ logout.pc = "returned"
             /\ logout'.pc = "done"
             /\ localStorage' = EmptyStore]_vars

\* The logout request failed at transport level, logoutApi returned all the
\* same, and the handler then cleared the session.
C20_Witness ==
    /\ logout.pc = "done"
    /\ logout.net
    /\ logout.res = <<>>
    /\ logout.ret = Fulfilled(Undefined)
    /\ logout.cleared = <<EmptyStore>>
    /\ localStorage = EmptyStore

\* C27: the send that finds a malformed access credential stored removes the
\* access credential and nothing else: the refresh credential and the cached
\* user are as they were, so the refresh a following 401 asks for still has
\* its credential.
C27_PurgeRemovesAccessOnly ==
    [][\A c \in Calls :
         (Sends(c) /\ MalformedStored)
         => /\ getItem(localStorage', REFRESH_TOKEN_KEY) = getItem(localStorage, REFRESH_TOKEN_KEY)
            /\ getItem(localStorage', USER_KEY) = getItem(localStorage, USER_KEY)
            /\ localStorage' = [localStorage EXCEPT ![ACCESS_TOKEN_KEY] = Null]]_vars

\* The malformed credential of the login was purged and the request went out
\* without credentials; the 401 that followed was recovered: the refresh
\* went to the network with the stored refresh credential, stored a new
\* credential, and the retry carried it and was accepted.
C27_Witness ==
    \E c \in Calls :
        /\ call[c].sent = <<Undefined, Str(Bearer(TokX2))>>
        /\ call[c].res = <<StatusUnauthorized, StatusOk>>
        /\ task[call[c].awaiting].net
        /\ task[call[c].awaiting].refreshToken = Str(RefY)
        /\ getAccessToken(localStorage) = Str(TokX2)
        /\ getItem(localStorage, USER_KEY) = Str(UserJson)
        /\ \A d \in Calls \ {c} : call[d].pc = "idle"

\* The refresh of task r is settling: refreshAccessToken has returned and
\* the handle's promise is being settled, or it has just settled and no
\* caller awaiting it has resumed yet.
Settling(r) ==
    \/ task[r].pc = "returned"
    \/ /\ task[r].pc = "settled"
       /\ \A c \in Calls : call[c].awaiting = r => call[c].pc = "refresh"

\* What refreshOnce resolves to for the callers of task r.
Resolution(r) == IF task[r].pc = "settled" THEN task[r].out ELSE task[r].ret

\* C26: when refreshOnce resolves to a credential c that is not null, the
\* store's access credential is c at the moment the refresh settles, and c
\* is the credential the response supplied, the accessToken field when the
\* body has one and the token field otherwise; and every caller that has
\* resumed got that same c.
C26_ResolvedCredentialIsStored ==
    /\ \A r \in Tasks :
         (Settling(r) /\ Resolution(r).k = "fulfilled" /\ Resolution(r).v # Null)
         => /\ getItem(localStorage, ACCESS_TOKEN_KEY) = Resolution(r).v
            /\ task[r].data # Undefined
            /\ Resolution(r).v = SuppliedAccess(task[r].data)
    /\ \A c \in Calls :
         (call[c].newToken.k = "fulfilled" /\ call[c].newToken.v # Null)
         => /\ task[call[c].awaiting].data # Undefined
            /\ call[c].newToken.v = SuppliedAccess(task[call[c].awaiting].data)

\* A response with both fields was answered: the refresh has settled to the
\* accessToken field's credential, its callers have not resumed yet, and
\* the store holds that credential.
C26_Witness ==
    \E r \in Tasks :
        /\ task[r].pc = "settled"
        /\ Settling(r)
        /\ task[r].data = Body(Str(TokX2), Str(TokTwoSeg), Str(RefY2))
        /\ task[r].out = Fulfilled(Str(TokX2))
        /\ getAccessToken(localStorage) = Str(TokX2)

\* Call c has sent its retry.
Retried(c) == Len(call[c].sent) = 2

\* C23 as stated: every retry carries as its bearer credential the access
\* credential the refresh before it returned, whatever that credential is.
C23_Original ==
    \A c \in Calls :
        Retried(c) => call[c].sent[2] = Str(<<"Bearer ">> \o call[c].newToken.v.s)

\* C23, amended: every retry carries as its bearer credential the access
\* credential the refresh before it returned when that credential is three
\* non-empty dot-separated segments; when it is not, the retry carries no
\* credential.
C23_RetryCarriesWellFormedRefreshed ==
    \A c \in Calls :
        Retried(c)
        => /\ call[c].newToken.k = "fulfilled"
           /\ call[c].newToken.v.t = "string"
           /\ IF ThreeSegments(call[c].newToken.v.s)
              THEN call[c].sent[2] = Str(<<"Bearer ">> \o call[c].newToken.v.s)
              ELSE call[c].sent[2] = Undefined

\* A call sent with the expired credential, resumed from the refresh with
\* the new one and sent its retry with it.
C23_Witness ==
    \E c \in Calls :
        /\ call[c].pc = "fetch2"
        /\ call[c].newToken = Fulfilled(Str(TokX2))
        /\ call[c].sent = <<Str(Bearer(TokX)), Str(Bearer(TokX2))>>

\* The session has been cleared, by a refresh or by a call, and the store
\* holds no credential.
ClearedAndEmpty ==
    /\ \/ \E c \in Calls : call[c].cleared # <<>>
       \/ \E r \in Tasks : task[r].cleared # <<>>
       \/ logout.cleared # <<>>
    /\ getItem(localStorage, ACCESS_TOKEN_KEY) = Null
    /\ getItem(localStorage, REFRESH_TOKEN_KEY) = Null

\* C24: once the session has been cleared the store stays without
\* credentials: no step of the request layer, and so no refresh exchange
\* that was in flight when the clear happened, writes an access or a refresh
\* credential back.  (No login is part of these runs.)
C24_StaysClearedUntilLogin ==
    [][ClearedAndEmpty
       => /\ getItem(localStorage', ACCESS_TOKEN_KEY) = Null
          /\ getItem(localStorage', REFRESH_TOKEN_KEY) = Null]_vars

\* C25: when every network call eventually settles, every call that has
\* started eventually returns or throws, and a handle that holds a refresh is
\* eventually empty; and, there being no timeout, a call that awaits a
\* refresh that has not settled has not returned.
C25_CallsReturnAndHandleEmpties ==
    /\ \A c \in Calls : (call[c].pc # "idle") ~> (call[c].pc = "done")
    /\ (refreshInFlight # NoHandle) ~> (refreshInFlight = NoHandle)
    /\ [](\A c \in Calls :
            (call[c].awaiting # NoHandle /\ task[call[c].awaiting].pc # "settled")
            => (call[c].pc = "refresh" /\ call[c].ret = "none"))

\* Every call has returned, one of them after awaiting a refresh whose
\* exchange went to the network, and the handle is empty.
C25_Witness ==
    /\ \A c \in Calls : call[c].pc = "done"
    /\ \E c \in Calls :
         call[c].awaiting # NoHandle /\ task[call[c].awaiting].net
    /\ refreshInFlight = NoHandle

\* The access credential a login response body supplies: the token field
\* when the body has one, the accessToken field otherwise.
LoginSuppliedAccess(data) ==
    IF data.token.t \in {"undefined", "null"} THEN data.accessToken ELSE data.token

NonEmptyString(v) == v.t = "string" /\ v.s # <<>>

\* The login response was a success and its body carries both credentials.
LoginCarriesBoth(l) ==
    /\ l.res # <<>>
    /\ l.res[1] >= 200 /\ l.res[1] <= 299
    /\ l.data # Undefined
    /\ NonEmptyString(LoginSuppliedAccess(l.data))
    /\ NonEmptyString(l.data.refreshToken)

SaveRequests == SelectSeq(save.sent, LAMBDA m : m \in {"PATCH", "PUT"})

\* The form holds what the profile holds: same trimmed name, same trimmed
\* facility, same shift.
NoFieldChanged(p, f) ==
    /\ Trim(f.fullName) =
         Trim((IF p.fullName \notin {Undefined, Null} THEN p.fullName
               ELSE IF p.name \notin {Undefined, Null} THEN p.name
               ELSE Str(<<>>)).s)
    /\ Trim(f.facility) =
         Trim((IF p.facility \notin {Undefined, Null} THEN p.facility
               ELSE Str(<<>>)).s)
    /\ f.shiftPreference = (IF p.shiftPreference = Str(Night) THEN Night ELSE Day)

\* The i-th request of the save was a PATCH or a PUT answered 401.
SaveUnauthorized(i) ==
    /\ i \in 1..Len(save.outs)
    /\ save.sent[i] \in {"PATCH", "PUT"}
    /\ save.outs[i].k = "threw"
    /\ save.outs[i].status = Num(StatusUnauthorized)

\* C22: a save issues PATCH first and a PUT only after the PATCH failed
\* with status 404 or 405; it issues at most one PATCH and one PUT, and
\* none when no field changed; a 401 from either clears the session and
\* redirects to login, and no success is reported.
C22_PatchThenPutFallback ==
    /\ SaveRequests \in {<<>>, <<"PATCH">>, <<"PATCH", "PUT">>}
    /\ save.sent # <<>> => save.sent[1] = "PATCH"
    /\ \A i \in 1..Len(save.sent) :
         save.sent[i] = "PUT" =>
           /\ i = 2
           /\ save.outs[1].k = "threw"
           /\ save.outs[1].status \in {Num(StatusNotFound),
                                        Num(StatusMethodNotAllowed)}
    /\ (save.pc # "idle" /\ save.profile # Null
           /\ NoFieldChanged(save.profile, save.form)) =>
         (save.sent = <<>> /\ save.pc = "done")
    /\ \A i \in 1..Len(save.outs) :
         SaveUnauthorized(i) =>
           /\ save.pc = "done"
           /\ save.redirected
           /\ save.cleared = <<EmptyStore>>
           /\ localStorage = EmptyStore
           /\ save.success = Null

\* The PATCH was answered 405, the PUT that followed was answered 401, and
\* the page redirected to login.
C22_Witness ==
    /\ save.sent = <<"PATCH", "PUT">>
    /\ Len(save.outs) = 2
    /\ save.outs[1].k = "threw"
    /\ save.outs[1].status = Num(StatusMethodNotAllowed)
    /\ SaveUnauthorized(2)
    /\ save.redirected

====
